---- MODULE Spec2Model ----
(***************************************************************************)
(* Verification model of menpo's text utilities (visualize/text_utils.py)  *)
(* and unwrapping transforms (transform/unwrap.py).                        *)
(*                                                                         *)
(* Three specifications share the module:                                  *)
(*   SpecText     progress_bar_str and print_bytes, as pure functions      *)
(*                applied to inputs drawn by the initial state;            *)
(*   SpecProgress the print_progress generator driven by a consumer;       *)
(*   SpecUnwrap   CylindricalUnwrap / SphericalUnwrap and the two          *)
(*                optimal_*_unwrap orchestration functions.                *)
(*                                                                         *)
(* Conventions.  A Python string is a sequence of one-character strings.   *)
(* A call's outcome is a record [exc, val]: exc = "none" for a return.     *)
(* A float that the code only ever builds as a quotient of two integers is *)
(* kept as that exact quotient [num, den] with den > 0.                    *)
(***************************************************************************)
EXTENDS Integers, Sequences, FiniteSets, TLC

VARIABLES
    \* SpecText
    fn, args, ret,
    \* SpecProgress
    iterable, sizable, n_items, pc, i, n, timings, received, stdout, log, exc,
    \* SpecUnwrap
    heap, points0, transform, transform0, chain, fit, result, phase

textVars == <<fn, args, ret>>
progressVars == <<iterable, sizable, n_items, pc, i, n, timings, received,
                  stdout, log, exc>>
unwrapVars == <<heap, points0, transform, transform0, chain, fit, result, phase>>
vars == <<textVars, progressVars, unwrapVars>>

----------------------------------------------------------------------------
(* Outcomes of a call *)

Raise(e) == [exc |-> e, val |-> <<>>]

Return(v) == [exc |-> "none", val |-> v]

NotCalled == [exc |-> "pending", val |-> <<>>]

(* Exact quotients standing for Python floats *)

Frac(a, d) == IF d < 0 THEN [num |-> -a, den |-> -d] ELSE [num |-> a, den |-> d]

FracLt(p, k) == p.num < k * p.den

FracGt(p, k) == p.num > k * p.den

\* int(p * m): Python's int() truncates; p >= 0 wherever the code calls it.
\* For the quotients a/d drawn here (d <= 8) the float product truncates to
\* the same integer as the exact one.
IntOfProduct(p, m) == (p.num * m) \div p.den

(* str(n) / "%d" % n for n >= 0 *)

DigitChar == <<"0", "1", "2", "3", "4", "5", "6", "7", "8", "9">>

RECURSIVE Decimal(_)
Decimal(k) ==
    IF k < 10 THEN <<DigitChar[k + 1]>>
    ELSE Decimal(k \div 10) \o <<DigitChar[(k % 10) + 1]>>

RECURSIVE Repeat(_, _)
Repeat(s, k) == IF k <= 0 THEN <<>> ELSE s \o Repeat(s, k - 1)

\* "%-<width>s" % s : left-justified, padded with spaces, never truncated
LJust(s, width) == s \o Repeat(<<" ">>, width - Len(s))

----------------------------------------------------------------------------
(* progress_bar_str, text_utils.py:7-70 *)

DefaultBarLength == 20

DefaultBarMarker == <<"=">>

\* ClampPercentage with the clamp of lines 58-59 left out (a faulty variant)
ClampPercentage_None(percentage) == percentage

\* lines 58-59: elif percentage > 1: percentage = 1
ClampPercentage(percentage) ==
    IF FracGt(percentage, 1) THEN Frac(1, 1) ELSE percentage

\* line 67: bar_percentage = int(percentage * bar_length)
BarPercentage(percentage, bar_length) == IntOfProduct(percentage, bar_length)

\* "%d%%" % (percentage * 100)
PercentText(percentage) == Decimal(IntOfProduct(percentage, 100)) \o <<"%">>

progress_bar_str(percentage, bar_length, bar_marker, show_bar) ==
    IF FracLt(percentage, 0)
    THEN Raise("ValueError")
    ELSE LET p == ClampPercentage(percentage) IN
         IF bar_length < 1 THEN Raise("ValueError")
         ELSE IF Len(bar_marker) # 1 THEN Raise("ValueError")
         ELSE IF show_bar
         THEN Return(<<"[">>
                     \o LJust(Repeat(bar_marker, BarPercentage(p, bar_length)),
                              bar_length)
                     \o <<"]", " ">> \o PercentText(p))
         ELSE Return(PercentText(p))

----------------------------------------------------------------------------
(* print_bytes, text_utils.py:87-110                                       *)
(*                                                                         *)
(* A Python int is unbounded; it is kept as its base-1024 limbs, least     *)
(* significant first, so that 1024^4 and above need no wide arithmetic.    *)
(* After k divisions by 1024.0 the float num is                            *)
(*   ip (integer part, limbs, least significant first)                     *)
(*   + fp (fraction, limbs, most significant first),                       *)
(* exactly, for every int below 2^53.                                      *)

Kilo == 1024

Units == <<"bytes", "KB", "MB", "GB">>

LastUnit == "TB"

RECURSIVE LimbsValue(_)
LimbsValue(ip) == IF ip = <<>> THEN 0 ELSE Head(ip) + Kilo * LimbsValue(Tail(ip))

\* LessThanKilo with <= for < (a faulty variant)
LessThanKilo_OrEqual(ip) ==
    \/ \A j \in 2..Len(ip) : ip[j] = 0
    \/ /\ Len(ip) >= 2 /\ ip[1] = 0 /\ ip[2] = 1
       /\ \A j \in 3..Len(ip) : ip[j] = 0

\* line 107: num < 1024.0 (the fraction never decides it)
LessThanKilo(ip) == \A j \in 2..Len(ip) : ip[j] = 0

\* 100 * fp as [carry |-> floor(100 * fp), rest |-> the fraction left over]
RECURSIVE TimesHundred(_)
TimesHundred(fp) ==
    IF fp = <<>> THEN [carry |-> 0, rest |-> <<>>]
    ELSE LET lower == TimesHundred(Tail(fp))
             t == Head(fp) * 100 + lower.carry
         IN [carry |-> t \div Kilo, rest |-> <<t % Kilo>> \o lower.rest]

\* the fraction `rest` compared with 1/2: -1 below, 0 equal, 1 above
CompareHalf(rest) ==
    IF rest = <<>> THEN -1
    ELSE IF rest[1] * 2 > Kilo THEN 1
    ELSE IF rest[1] * 2 < Kilo THEN -1
    ELSE IF \E j \in 2..Len(rest) : rest[j] # 0 THEN 1 ELSE 0

\* the value in hundredths as "{0:3.2f}" prints it: correctly rounded,
\* ties to even
Hundredths(ip, fp) ==
    LET m == TimesHundred(fp)
        h == LimbsValue(ip) * 100 + m.carry
        c == CompareHalf(m.rest)
    IN IF c > 0 \/ (c = 0 /\ h % 2 = 1) THEN h + 1 ELSE h

\* "{0:3.2f} {1:s}".format(num, x); the unit is kept as one element
Format(ip, fp, unit) ==
    LET h == Hundredths(ip, fp) IN
    [whole |-> h \div 100, cents |-> h % 100, unit |-> unit,
     text |-> Decimal(h \div 100) \o <<".">> \o Decimal((h % 100) \div 10)
              \o Decimal(h % 10) \o <<" ", unit>>]

RECURSIVE print_bytes_loop(_, _, _)
print_bytes_loop(ip, fp, k) ==
    IF k > Len(Units) THEN Return(Format(ip, fp, LastUnit))
    ELSE IF LessThanKilo(ip) THEN Return(Format(ip, fp, Units[k]))
    ELSE print_bytes_loop(Tail(ip), <<Head(ip)>> \o fp, k + 1)

print_bytes(num) ==
    IF num.kind # "int" \/ num.neg THEN Raise("ValueError")
    ELSE print_bytes_loop(num.limbs, <<>>, 1)

----------------------------------------------------------------------------
(* SpecText: the two pure functions applied to drawn inputs *)

MaxPctDen == 4

MaxBarLength == 3

MaxTopLimb == 2

Percentages ==
    {Frac(a, d) : a \in -1..(MaxPctDen + 2), d \in 1..MaxPctDen}

BarLengths == (0..MaxBarLength) \cup {DefaultBarLength}

BarMarkers == {DefaultBarMarker, <<"#">>, <<>>, <<"=", "=">>}

BarArgs ==
    [percentage : Percentages, bar_length : BarLengths,
     bar_marker : BarMarkers, show_bar : BOOLEAN]

\* limbs that meet the unit boundaries, the rounding boundary (1019/1024 is
\* the first fraction printed as .00 of the next integer), a rounding tie
\* (128/1024 = .125) and the docstring's 12345 = 12 * 1024 + 57
LimbVals == {0, 1, 12, 57, 128, 1019, 1023}

IntLimbs ==
    {low \o <<top>> : low \in [1..(Len(Units) + 1) -> LimbVals],
                      top \in 0..MaxTopLimb}

ByteArgs ==
    {[kind |-> "int", neg |-> FALSE, limbs |-> l] : l \in IntLimbs}
    \cup {[kind |-> "int", neg |-> TRUE, limbs |-> <<v, 0, 0, 0, 0, 0>>] :
            v \in LimbVals \ {0}}
    \cup {[kind |-> k, neg |-> FALSE, limbs |-> <<v, 0, 0, 0, 0, 0>>] :
            k \in {"float", "str"}, v \in LimbVals}

progressIdle ==
    /\ iterable = <<>> /\ sizable = TRUE /\ n_items = "None" /\ pc = "idle"
    /\ i = 0 /\ n = 0 /\ timings = <<>> /\ received = <<>> /\ stdout = <<>>
    /\ log = <<>> /\ exc = "none"

unwrapIdle ==
    /\ heap = <<>> /\ points0 = <<>> /\ transform = <<>> /\ transform0 = <<>>
    /\ chain = <<>> /\ fit = <<>> /\ result = <<>> /\ phase = "idle"

InitText ==
    /\ \/ fn = "progress_bar_str" /\ args \in BarArgs
       \/ fn = "print_bytes" /\ args \in ByteArgs
    /\ ret = NotCalled
    /\ progressIdle
    /\ unwrapIdle

CallProgressBarStr ==
    /\ fn = "progress_bar_str"
    /\ ret.exc = "pending"
    /\ ret' = progress_bar_str(args.percentage, args.bar_length,
                               args.bar_marker, args.show_bar)
    /\ UNCHANGED <<fn, args, progressVars, unwrapVars>>

CallPrintBytes ==
    /\ fn = "print_bytes"
    /\ ret.exc = "pending"
    /\ ret' = print_bytes(args)
    /\ UNCHANGED <<fn, args, progressVars, unwrapVars>>

NextText == CallProgressBarStr \/ CallPrintBytes

SpecText == InitText /\ [][NextText]_vars

----------------------------------------------------------------------------
(* Claims on progress_bar_str and print_bytes *)

BarArgsValid == args.bar_length >= 1 /\ Len(args.bar_marker) = 1

AllUnits == Units \o <<LastUnit>>

\* the highest nonzero limb's position, 0 for the number 0
TopLimb(limbs) ==
    IF \A j \in 1..Len(limbs) : limbs[j] = 0 THEN 0
    ELSE CHOOSE j \in 1..Len(limbs) :
            limbs[j] # 0 /\ \A q \in (j + 1)..Len(limbs) : limbs[q] = 0

\* the smallest k in 0..3 with num / 1024^k < 1024, and 4 when there is none
ExpectedUnitIndex(limbs) ==
    LET top == TopLimb(limbs) IN
    IF top <= 1 THEN 0 ELSE IF top - 1 > Len(Units) THEN Len(Units) ELSE top - 1

\* round-half-even of 100 * a / d, by plain integer arithmetic
RoundedHundredths(a, d) ==
    LET q == (100 * a) \div d
        r == (100 * a) % d
    IN IF 2 * r > d \/ (2 * r = d /\ q % 2 = 1) THEN q + 1 ELSE q

BytesArgsValid == args.kind = "int" /\ ~args.neg

\* what C9 says of the unit and of the number before it is printed
C9_UnitAndValue ==
    /\ ~BytesArgsValid => ret = Raise("ValueError")
    /\ BytesArgsValid =>
          LET k == ExpectedUnitIndex(args.limbs) IN
          /\ ret.exc = "none"
          /\ ret.val.unit = AllUnits[k + 1]
          /\ TopLimb(args.limbs) = 0 =>
                ret.val.text = <<"0", ".", "0", "0", " ", "bytes">>
          /\ TopLimb(args.limbs) <= 2 =>
                ret.val.whole * 100 + ret.val.cents =
                    RoundedHundredths(args.limbs[1] + Kilo * args.limbs[2],
                                      IF k = 0 THEN 1 ELSE Kilo)

\* C9 as stated: ValueError unless num is an int >= 0; otherwise the unit
\* is number k of [bytes, KB, MB, GB, TB] for the smallest k in 0..3 with
\* num / 1024^k < 1024 (TB when there is none), print_bytes(0) is
\* "0.00 bytes", and the printed number is below 1024 for every unit
\* except TB.
C9_PrintedBelowKilo ==
    (fn = "print_bytes" /\ ret.exc # "pending") =>
        /\ C9_UnitAndValue
        /\ (BytesArgsValid /\ ret.val.unit # LastUnit) => ret.val.whole < Kilo

\* C9 amended: as C9, but the printed number, being rounded to two
\* decimals, is at most 1024.00 for every unit except TB (the quotient
\* before rounding is below 1024).
C9_PrintedAtMostKilo ==
    (fn = "print_bytes" /\ ret.exc # "pending") =>
        /\ C9_UnitAndValue
        /\ (BytesArgsValid /\ ret.val.unit # LastUnit) =>
              /\ ret.val.whole * 100 + ret.val.cents <= Kilo * 100
              /\ args.limbs[ExpectedUnitIndex(args.limbs) + 1] < Kilo

C9_Witness ==
    /\ fn = "print_bytes"
    /\ ret.exc = "none"
    /\ ret.val.unit = "KB"
    /\ ret.val.text = <<"1", "0", "2", "4", ".", "0", "0", " ", "KB">>

----------------------------------------------------------------------------
(* print_dynamic and print_progress, text_utils.py:73-84, 113-160          *)
(*                                                                         *)
(* print_progress is a generator.  The consumer drives it: the first       *)
(* next() runs lines 145-149 up to the first yield, each later next() runs *)
(* lines 150-159 and the loop head again, and exhaustion runs line 160.    *)
(* time() is read as a whole number of seconds; with the lengths drawn     *)
(* here the quotients the code forms in floats are exact.                  *)

DequeMaxLen == 100

SecondsPerDay == 86400

\* deque([], 100).append(v)
DequeAppend(q, v) ==
    IF Len(q) >= DequeMaxLen THEN Tail(q) \o <<v>> ELSE Append(q, v)

RECURSIVE Sum(_)
Sum(q) == IF q = <<>> THEN 0 ELSE Head(q) + Sum(Tail(q))

TwoDigits(k) == Decimal(k \div 10) \o Decimal(k % 10)

\* lines 154-156: utcfromtimestamp(sum / len * remaining).strftime("%H:%M:%S")
\* (a negative timestamp is a time of day of 1969-12-31)
RemainingStr(q, remaining) ==
    LET secs == ((Sum(q) * remaining) \div Len(q)) % SecondsPerDay IN
    TwoDigits(secs \div 3600) \o <<":">> \o TwoDigits((secs \div 60) % 60)
        \o <<":">> \o TwoDigits(secs % 60)

\* ReportCount with the zero-based index printed as the count (a faulty
\* variant)
ReportCount_ZeroBased(idx) == idx

\* line 158: the count printed is i + 1
ReportCount(idx) == idx + 1

\* line 83: sys.stdout.write("\r%s" % str_to_print)
print_dynamic(str_to_print) == <<"\r">> \o str_to_print

\* lines 158-159: what print_dynamic is called with, and the write it makes
ProgressReport(bar_str, idx, total, remaining_str) ==
    [kind |-> "dynamic", bar |-> bar_str, count |-> ReportCount(idx),
     text |-> print_dynamic(bar_str \o <<" ", "(">> \o Decimal(ReportCount(idx))
                            \o <<"/">> \o Decimal(total)
                            \o <<")", " ", "-", " ">> \o remaining_str
                            \o <<" ", "remaining">>)]

\* line 160: print('')
EmptyLine == [kind |-> "line", bar |-> <<>>, count |-> 0, text |-> <<"\n">>]

Yielded(k) == [ev |-> "yield", k |-> k]

Reported(k) == [ev |-> "report", k |-> k]

Ended == [ev |-> "newline", k |-> 0]

\* line 148, the head of the loop at index idx, with `out` and `events` what
\* has been written and recorded so far: yield the next element, or leave
\* the loop and print the closing line
LoopHead(idx, out, events) ==
    IF idx < Len(iterable)
    THEN /\ received' = Append(received, iterable[idx + 1])
         /\ i' = idx
         /\ stdout' = out
         /\ log' = Append(events, Yielded(Len(received) + 1))
         /\ pc' = "suspended"
    ELSE /\ stdout' = Append(out, EmptyLine)
         /\ log' = Append(events, Ended)
         /\ pc' = "done"
         /\ UNCHANGED <<received, i>>

\* the first next(): lines 145-148
NextFirst ==
    /\ pc = "created"
    /\ IF ~n_items.given /\ ~sizable
       THEN \* len(iterable) of an iterable without a length
            /\ pc' = "raised"
            /\ exc' = "TypeError"
            /\ UNCHANGED <<i, n, timings, received, stdout, log>>
       ELSE /\ n' = IF n_items.given THEN n_items.v ELSE Len(iterable)
            /\ timings' = <<>>
            /\ LoopHead(0, stdout, log)
            /\ exc' = exc
    /\ UNCHANGED <<iterable, sizable, n_items, textVars, unwrapVars>>

\* a later next(): lines 150-159, then the head of the loop
NextResume(dt) ==
    /\ pc = "suspended"
    /\ timings' = DequeAppend(timings, dt)
    /\ LET remaining == n - i - 1
           remaining_str == RemainingStr(timings', remaining)
           bar == IF n = 0 THEN Raise("ZeroDivisionError")
                  ELSE progress_bar_str(Frac(i + 1, n), DefaultBarLength,
                                        DefaultBarMarker, TRUE)
       IN IF bar.exc # "none"
          THEN /\ pc' = "raised"
               /\ exc' = bar.exc
               /\ UNCHANGED <<i, received, stdout, log>>
          ELSE /\ LoopHead(i + 1,
                           Append(stdout,
                                  ProgressReport(bar.val, i, n, remaining_str)),
                           Append(log, Reported(ReportCount(i))))
               /\ exc' = exc
    /\ UNCHANGED <<iterable, sizable, n_items, n, textVars, unwrapVars>>

\* the consumer stops asking: the generator is closed at its yield (or
\* before it ever ran); the body has no handler, so nothing more is written
Close ==
    /\ pc \in {"created", "suspended"}
    /\ pc' = "closed"
    /\ UNCHANGED <<iterable, sizable, n_items, i, n, timings, received,
                   stdout, log, exc, textVars, unwrapVars>>

----------------------------------------------------------------------------
(* SpecProgress *)

MaxItems == 3

MaxDeclared == 4

MaxDelta == 1

Items == {"a", "b"}

Iterables == UNION {[1..len -> Items] : len \in 0..MaxItems}

DeclaredLengths ==
    {[given |-> FALSE, v |-> 0]}
    \cup {[given |-> TRUE, v |-> v] : v \in (-1)..MaxDeclared}

textIdle == fn = "idle" /\ args = <<>> /\ ret = NotCalled

InitProgress ==
    /\ iterable \in Iterables
    /\ sizable \in BOOLEAN
    /\ n_items \in DeclaredLengths
    /\ pc = "created"
    /\ i = 0 /\ n = 0 /\ timings = <<>> /\ received = <<>> /\ stdout = <<>>
    /\ log = <<>> /\ exc = "none"
    /\ textIdle
    /\ unwrapIdle

NextProgress ==
    \/ NextFirst
    \/ \E dt \in 0..MaxDelta : NextResume(dt)
    \/ Close

SpecProgress == InitProgress /\ [][NextProgress]_vars

----------------------------------------------------------------------------
(* Claims on print_progress *)

\* the iterable has a length or a length was declared (the docstring's
\* requirement on the arguments), and a declared length is not negative
LengthKnown ==
    /\ n_items.given \/ sizable
    /\ n_items.given => n_items.v >= 0

\* C1: the elements a consumer receives from print_progress are exactly
\* the elements of the iterable, in order, none dropped, for every
\* iterable and every declared length.  Stated for a consumer that consumes
\* until the generator ends, whichever way it ends.
C1_AllItemsReceived ==
    (pc \in {"done", "raised"} /\ LengthKnown) => received = iterable

Shows100(w) ==
    /\ w.kind = "dynamic"
    /\ Len(w.bar) >= 4
    /\ SubSeq(w.bar, Len(w.bar) - 3, Len(w.bar)) = <<"1", "0", "0", "%">>

HundredPercentReports == {j \in DOMAIN stdout : Shows100(stdout[j])}

\* C2: a fully consumed print_progress writes a report showing 100%
\* exactly once, for any iterable and any declared length.
C2_HundredPercentOnce ==
    (pc = "done" /\ LengthKnown) => Cardinality(HundredPercentReports) = 1

Reports == SelectSeq(stdout, LAMBDA w : w.kind = "dynamic")

NoClosingLine == \A j \in DOMAIN stdout : stdout[j].kind # "line"

\* C10: report k is written only after item k was yielded and the
\* consumer asked for the next item, and before item k + 1 is yielded; the
\* counts written are 1, 2, 3, ... each once, in increasing order; the
\* closing newline is written only after the iterable is exhausted; a
\* consumer that stops after receiving k items has caused exactly k - 1
\* reports and no closing newline.
C10_ReportOrder ==
    /\ \A j \in DOMAIN log :
          /\ log[j].ev = "report" =>
                j > 1 /\ log[j - 1] = Yielded(log[j].k)
          /\ log[j].ev = "yield" =>
                IF log[j].k = 1 THEN j = 1
                ELSE j > 1 /\ log[j - 1] = Reported(log[j].k - 1)
          /\ log[j].ev = "newline" =>
                /\ j = Len(log)
                /\ pc = "done"
                /\ received = iterable
                /\ j > 1 => log[j - 1] = Reported(Len(iterable))
    /\ Len(received) = Cardinality({j \in DOMAIN log : log[j].ev = "yield"})
    /\ Len(stdout) = Cardinality({j \in DOMAIN log : log[j].ev # "yield"})
    /\ \A k \in DOMAIN Reports : Reports[k].count = k
    /\ (pc \in {"suspended", "closed"} /\ received # <<>>) =>
          /\ Len(Reports) = Len(received) - 1
          /\ NoClosingLine

C10_Witness ==
    /\ pc = "closed"
    /\ Len(received) = 3
    /\ Len(Reports) = 2
    /\ Reports[2].count = 2

----------------------------------------------------------------------------
(* Point sets and transforms, transform/unwrap.py                          *)
(*                                                                         *)
(* A point set is an N x D array: a sequence of N rows of D entries.  An   *)
(* entry is a term: Num(v) for the number v, or the name of the real       *)
(* number a transcendental function gives, such as                         *)
(* <<"mul", <<"arctan2", x, z>>, r>>, so that two entries are equal        *)
(* exactly when the code computed them the same way from the same numbers. *)
(* Arrays live in `heap`, indexed by identity; heap[1] is the caller's     *)
(* array.                                                                  *)

Num(v) == <<"num", v>>

Val(t) == t[2]

NRows(x) == Len(x)

NCols(x) == Len(x[1])

\* x[:, c] (zero-based c in the source, one-based here)
Column(x, c) == [row \in 1..NRows(x) |-> x[row][c]]

\* a[:, c] = values
SetColumn(a, c, values) ==
    [row \in 1..NRows(a) |-> [a[row] EXCEPT ![c] = values[row]]]

\* np.empty_like(x): a new array of x's shape whose entries are whatever
\* the memory held; `junk` gives that content, one arbitrary value a row
EmptyLike(x, junk) ==
    [row \in 1..NRows(x) |-> [c \in 1..NCols(x) |-> junk[row]]]

\* unwrap.py:38-39 and 84-85
CylindricalUnwrap(radius) == [type |-> "CylindricalUnwrap", radius |-> radius]

SphericalUnwrap(radius) == [type |-> "SphericalUnwrap", radius |-> radius]

Sqrt(v) == <<"sqrt", v>>

Arctan2(a, b) == <<"arctan2", a, b>>

Applied(a, cols) == [exc |-> "none", val |-> a, assigned |-> cols]

Failed(e) == [exc |-> e, val |-> <<>>, assigned |-> {}]

\* CylindricalUnwrap._apply, unwrap.py:41-49
CylindricalUnwrap_apply(self, x, junk) ==
    LET cy_coords == EmptyLike(x, junk) IN
    IF NCols(x) < 3 THEN Failed("IndexError")
    ELSE LET depth == [row \in 1..NRows(x) |->
                         <<"sub", Sqrt(Val(x[row][1]) * Val(x[row][1])
                                       + Val(x[row][3]) * Val(x[row][3])),
                           self.radius>>]
             theta == [row \in 1..NRows(x) |->
                         Arctan2(Val(x[row][1]), Val(x[row][3]))]
             z == Column(x, 2)
             c0 == SetColumn(cy_coords, 1,
                             [row \in 1..NRows(x) |->
                                <<"mul", theta[row], self.radius>>])
             c1 == SetColumn(c0, 2, z)
             c2 == SetColumn(c1, 3, depth)
         IN Applied(c2, {1, 2, 3})

RECURSIVE SumSquares(_)
SumSquares(row) ==
    IF row = <<>> THEN 0
    ELSE Val(Head(row)) * Val(Head(row)) + SumSquares(Tail(row))

\* SphericalUnwrap._apply, unwrap.py:87-95
SphericalUnwrap_apply(self, x, junk) ==
    LET sp_coords == EmptyLike(x, junk)
        r == [row \in 1..NRows(x) |-> Sqrt(SumSquares(x[row]))]
    IN
    IF NCols(x) < 3 THEN Failed("IndexError")
    ELSE LET theta == [row \in 1..NRows(x) |->
                         Arctan2(Val(x[row][1]), Val(x[row][3]))]
             phi == [row \in 1..NRows(x) |->
                       <<"arcsin", <<"div", x[row][2], r[row]>>>>]
             c0 == SetColumn(sp_coords, 1,
                             [row \in 1..NRows(x) |->
                                <<"mul", theta[row], self.radius>>])
             c1 == SetColumn(c0, 2,
                             [row \in 1..NRows(x) |->
                                <<"mul", phi[row], self.radius>>])
             c2 == SetColumn(c1, 3,
                             [row \in 1..NRows(x) |->
                                <<"sub", r[row], self.radius>>])
         IN Applied(c2, {1, 2, 3})

(* The collaborators unwrap.py imports: menpo.math.radial_fit,             *)
(* .homogeneous.Translation, .base.Transform and its chain.                *)

Translation(offset) == [type |-> "Translation", offset |-> offset]

\* Translation.apply: points + offset, broadcast over the rows
Translation_apply(self, x) ==
    IF Len(self.offset) # NCols(x) THEN Failed("ValueError")
    ELSE Applied([row \in 1..NRows(x) |->
                    [c \in 1..NCols(x) |->
                       Num(Val(x[row][c]) + self.offset[c])]],
                 1..NCols(x))

\* Transform.apply
Transform_apply(t, x, junk) ==
    CASE t.type = "Translation" -> Translation_apply(t, x)
      [] t.type = "CylindricalUnwrap" -> CylindricalUnwrap_apply(t, x, junk)
      [] t.type = "SphericalUnwrap" -> SphericalUnwrap_apply(t, x, junk)

\* Transform.compose_before: the chain in which self runs first
compose_before(self, other) == <<self, other>>

\* TransformChain.apply: the stages in order, each on the one before's
\* output (`last`, at first the caller's array); the first failure ends it;
\* `made` lists the arrays allocated on the way
RECURSIVE TransformChain_apply(_, _, _, _)
TransformChain_apply(stages, last, junk, made) ==
    IF stages = <<>> THEN [res |-> last, made |-> made]
    ELSE LET r == Transform_apply(Head(stages), last.val, junk) IN
         IF r.exc # "none" THEN [res |-> r, made |-> made]
         ELSE TransformChain_apply(Tail(stages), r, junk, Append(made, r.val))

\* radial_fit: the least-squares solve is outside this model; `outcome` is
\* what it did, a failure or a centre and a radius
radial_fit(p, outcome) ==
    IF outcome.ok
    THEN [exc |-> "none", centre |-> outcome.centre, radius |-> outcome.radius]
    ELSE [exc |-> "FitError", centre |-> <<>>, radius |-> 0]

Negated(v) == [c \in 1..Len(v) |-> -v[c]]

\* EmbedCentre with the two fitted coordinates put in x and y (a faulty
\* variant)
EmbedCentre_XY(centre) == <<centre[1], centre[2], 0>>

\* unwrap.py:126: np.array([centre[0], 0, centre[1]])
EmbedCentre(centre) == <<centre[1], 0, centre[2]>>

\* CylindricalChain composed the other way round (a faulty variant)
CylindricalChain_Reversed(centre, radius) ==
    compose_before(CylindricalUnwrap(radius),
                   Translation(Negated(EmbedCentre(centre))))

\* unwrap.py:126-129
CylindricalChain(centre, radius) ==
    LET translation == EmbedCentre(centre)
        centring_transform == Translation(Negated(translation))
        unwrap == CylindricalUnwrap(radius)
    IN compose_before(centring_transform, unwrap)

\* unwrap.py:158-160
SphericalChain(centre, radius) ==
    LET centring_transform == Translation(Negated(centre))
        unwrap == SphericalUnwrap(radius)
    IN compose_before(centring_transform, unwrap)

Built(c) == [exc |-> "none", chain |-> c]

NotBuilt(e) == [exc |-> e, chain |-> <<>>]

\* optimal_cylindrical_unwrap with a failed fit swallowed and the identity
\* (empty) chain returned (a faulty variant)
optimal_cylindrical_unwrap_Swallow(points, outcome) ==
    LET xy == [row \in 1..NRows(points) |-> <<points[row][1], points[row][3]>>]
        f == radial_fit(xy, outcome)
    IN IF f.exc # "none" THEN Built(<<>>)
       ELSE Built(CylindricalChain(f.centre, f.radius))

\* unwrap.py:98-129
optimal_cylindrical_unwrap(points, outcome) ==
    LET xy == [row \in 1..NRows(points) |-> <<points[row][1], points[row][3]>>]
        f == radial_fit(xy, outcome)
    IN IF f.exc # "none" THEN NotBuilt(f.exc)
       ELSE Built(CylindricalChain(f.centre, f.radius))

\* unwrap.py:132-160
optimal_spherical_unwrap(points, outcome) ==
    LET f == radial_fit(points, outcome)
    IN IF f.exc # "none" THEN NotBuilt(f.exc)
       ELSE Built(SphericalChain(f.centre, f.radius))

----------------------------------------------------------------------------
(* SpecUnwrap: a caller's point set, then either a transform constructed   *)
(* and applied to it, or an optimal_*_unwrap call on it and the returned   *)
(* chain applied to it.                                                    *)

MaxRows == 2

MaxRadius == 2

Dims == {2, 3, 4}

Coords == {0, 1}

CentreVals == {0, 1}

\* what uninitialised memory may hold: two values that no computation gives
UninitVals == {<<"junk", 0>>, <<"junk", 1>>}

PointSets ==
    UNION {[1..rows -> [1..d -> {Num(v) : v \in Coords}]] :
             rows \in 1..MaxRows, d \in Dims}

FitOutcomes(K) ==
    {[ok |-> FALSE, centre |-> <<>>, radius |-> 0]}
    \cup {[ok |-> TRUE, centre |-> c, radius |-> r] :
            c \in [1..K -> CentreVals], r \in 1..MaxRadius}

NoTransform == [type |-> "none", radius |-> 0]

NoFit == [fn |-> "none", ok |-> FALSE, centre |-> <<>>, radius |-> 0]

NoResult == [exc |-> "pending", id |-> 0, assigned |-> {}]

InitUnwrap ==
    /\ \E x \in PointSets : heap = <<x>> /\ points0 = x
    /\ transform = NoTransform /\ transform0 = NoTransform
    /\ chain = <<>> /\ fit = NoFit /\ result = NoResult
    /\ phase = "start"
    /\ textIdle
    /\ progressIdle

\* CylindricalUnwrap(radius) or SphericalUnwrap(radius)
Construct(t) ==
    /\ phase = "start"
    /\ transform' = t
    /\ transform0' = t
    /\ phase' = "constructed"
    /\ UNCHANGED <<heap, points0, chain, fit, result, textVars, progressVars>>

\* transform.apply(x) on the caller's array
Apply(junk) ==
    /\ phase = "constructed"
    /\ LET r == Transform_apply(transform, heap[1], junk) IN
       IF r.exc = "none"
       THEN /\ heap' = Append(heap, r.val)
            /\ result' = [exc |-> "none", id |-> Len(heap) + 1,
                          assigned |-> r.assigned]
       ELSE /\ heap' = heap
            /\ result' = [exc |-> r.exc, id |-> 0, assigned |-> {}]
    /\ phase' = "applied"
    /\ UNCHANGED <<points0, transform, transform0, chain, fit, textVars,
                   progressVars>>

Orchestrated(name, outcome, r) ==
    /\ fit' = [fn |-> name, ok |-> outcome.ok, centre |-> outcome.centre,
               radius |-> outcome.radius]
    /\ chain' = r.chain
    /\ IF r.exc = "none"
       THEN phase' = "chain" /\ result' = result
       ELSE phase' = "raised"
            /\ result' = [exc |-> r.exc, id |-> 0, assigned |-> {}]
    /\ UNCHANGED <<heap, points0, transform, transform0, textVars,
                   progressVars>>

\* optimal_cylindrical_unwrap(points) on a 3D point cloud
CallOptimalCylindricalUnwrap(outcome) ==
    /\ phase = "start"
    /\ NCols(heap[1]) = 3
    /\ Orchestrated("optimal_cylindrical_unwrap", outcome,
                    optimal_cylindrical_unwrap(heap[1], outcome))

\* optimal_spherical_unwrap(points) on a 3D point cloud
CallOptimalSphericalUnwrap(outcome) ==
    /\ phase = "start"
    /\ NCols(heap[1]) = 3
    /\ Orchestrated("optimal_spherical_unwrap", outcome,
                    optimal_spherical_unwrap(heap[1], outcome))

\* chain.apply(points) with the chain an optimal_*_unwrap call returned
ApplyChain(junk) ==
    /\ phase = "chain"
    /\ LET r == TransformChain_apply(chain, Applied(heap[1], 1..NCols(heap[1])),
                                     junk, <<>>)
       IN /\ heap' = heap \o r.made
          /\ result' = IF r.res.exc = "none"
                       THEN [exc |-> "none", id |-> Len(heap) + Len(r.made),
                             assigned |-> r.res.assigned]
                       ELSE [exc |-> r.res.exc, id |-> 0, assigned |-> {}]
    /\ phase' = "chain_applied"
    /\ UNCHANGED <<points0, transform, transform0, chain, fit, textVars,
                   progressVars>>

JunkFor(x) == [1..NRows(x) -> UninitVals]

NextUnwrap ==
    \/ \E r \in 1..MaxRadius : Construct(CylindricalUnwrap(r))
    \/ \E r \in 1..MaxRadius : Construct(SphericalUnwrap(r))
    \/ \E junk \in JunkFor(heap[1]) : Apply(junk)
    \/ \E outcome \in FitOutcomes(2) : CallOptimalCylindricalUnwrap(outcome)
    \/ \E outcome \in FitOutcomes(3) : CallOptimalSphericalUnwrap(outcome)
    \/ \E junk \in JunkFor(heap[1]) : ApplyChain(junk)

SpecUnwrap == InitUnwrap /\ [][NextUnwrap]_vars

----------------------------------------------------------------------------
(* Claims on the unwrapping transforms *)

FittedCentre3D ==
    IF fit.fn = "optimal_cylindrical_unwrap"
    THEN <<fit.centre[1], 0, fit.centre[2]>>
    ELSE fit.centre

FittedUnwrap ==
    [type |-> IF fit.fn = "optimal_cylindrical_unwrap"
              THEN "CylindricalUnwrap" ELSE "SphericalUnwrap",
     radius |-> fit.radius]

\* C3: the chain optimal_cylindrical_unwrap and optimal_spherical_unwrap
\* return has exactly the two stages [Translation(-fitted centre),
\* Unwrap(fitted radius)], in that order, and applying it to a 3D point set
\* p gives Unwrap.apply(Translation.apply(p)): the translation runs first
\* and its output is the unwrap's input.
C3_TranslationThenUnwrap ==
    /\ phase \in {"chain", "chain_applied"} =>
          /\ Len(chain) = 2
          /\ chain[1] = [type |-> "Translation",
                         offset |-> [c \in 1..3 |-> 0 - FittedCentre3D[c]]]
          /\ chain[2] = FittedUnwrap
    /\ phase = "chain_applied" =>
          /\ result.exc = "none"
          /\ Len(heap) = 3
          /\ result.id = 3
          /\ heap[2] = [row \in 1..NRows(points0) |->
                          [c \in 1..3 |->
                             Num(Val(points0[row][c]) - FittedCentre3D[c])]]
          /\ heap[3] = Transform_apply(FittedUnwrap, heap[2],
                                       [row \in 1..NRows(points0) |->
                                          <<"junk", 0>>]).val

C3_Witness ==
    /\ phase = "chain_applied"
    /\ fit.fn = "optimal_spherical_unwrap"
    /\ fit.centre = <<1, 0, 1>>
    /\ result.exc = "none"
    /\ NRows(points0) = 2

\* C4: when radial_fit fails, optimal_cylindrical_unwrap and
\* optimal_spherical_unwrap end in that same failure: no chain is returned
\* and no Translation or Unwrap is built from the missing fit result.
C4_FitFailurePropagates ==
    (fit.fn # "none" /\ ~fit.ok) =>
        /\ phase = "raised"
        /\ result.exc = "FitError"
        /\ chain = <<>>
        /\ transform = NoTransform
        /\ Len(heap) = 1

C4_Witness ==
    /\ phase = "raised"
    /\ fit.fn = "optimal_cylindrical_unwrap"
    /\ result.exc = "FitError"

\* C5: applying CylindricalUnwrap or SphericalUnwrap to a point set never
\* changes the input array; the result is a separate array with the same
\* number of rows, row i of the result depends only on row i of the input
\* and the radius (so equal input rows give equal result rows), and the
\* transform's radius is unchanged.
C5_ApplyIsPure ==
    phase = "applied" =>
        /\ heap[1] = points0
        /\ transform = transform0
        /\ result.exc = "none" =>
              /\ result.id # 1
              /\ NRows(heap[result.id]) = NRows(points0)
              /\ \A a, b \in 1..NRows(points0) :
                    points0[a] = points0[b] =>
                        heap[result.id][a] = heap[result.id][b]

\* C6: applying CylindricalUnwrap or SphericalUnwrap to a point set whose
\* number of columns is not 3 is rejected with an error; no result is
\* returned that has a column the transform did not assign, and every
\* returned result has exactly 3 columns.
C6_RejectsNonThreeColumns ==
    phase = "applied" =>
        /\ NCols(points0) # 3 => result.exc # "none"
        /\ result.exc = "none" =>
              /\ NCols(heap[result.id]) = 3
              /\ result.assigned = 1..NCols(heap[result.id])

\* C7: the chain optimal_cylindrical_unwrap returns leaves the Y
\* coordinate of every point of a 3D point set unchanged: the fitted centre
\* is embedded with a zero Y component, and CylindricalUnwrap copies input
\* column 1 to output column 1.
C7_CylindricalKeepsY ==
    (fit.fn = "optimal_cylindrical_unwrap" /\ fit.ok) =>
        /\ chain[1].offset[2] = 0
        /\ phase = "chain_applied" =>
              /\ result.exc = "none"
              /\ \A row \in 1..NRows(points0) :
                    heap[result.id][row][2] = points0[row][2]

C7_Witness ==
    /\ phase = "chain_applied"
    /\ fit.fn = "optimal_cylindrical_unwrap"
    /\ fit.centre = <<1, 1>>
    /\ result.exc = "none"
    /\ \E row \in 1..NRows(points0) : points0[row][2] = Num(1)

====
